---- MODULE Spec2Model ----
(***************************************************************************)
(* Insurance premium dashboard (premium_forecasting/streamlit): the        *)
(* identifier normalisation of load_forecast_data, the merge and metric    *)
(* derivation of prepare_map_data, the map validation of streamlit_app.py  *)
(* and the script run that strings them together; the repeated loads      *)
(* through st.cache_data (SpecCache); and the columns of the fetched       *)
(* tables through the loader and prepare_map_data (SpecCols).              *)
(*                                                                         *)
(* Strings are sequences of one-character strings.  A float64 cell is a    *)
(* record [k, n, d]: k = "num" with the exact rational n/d (d > 0, lowest  *)
(* terms), or k = "nan" (NaN and None alike, as pandas holds them in a     *)
(* numeric column), "inf", "ninf", or "text" (a non-numeric object).       *)
(***************************************************************************)
EXTENDS Integers, Sequences, FiniteSets, TLC

VARIABLES
    \* ---- identifier normalisation, one value at a time (SpecNorm)
    nstage,            \* "input" | "normalized" | "renormalized"
    raw,               \* the raw identifier value
    norm,              \* the value after one normalisation
    norm2,             \* the value after normalising norm again
    \* ---- one script run of streamlit_app.py (Spec)
    pc,                \* position of the script run
    raw_summary,       \* what the summary query returned, before cleaning
    raw_growth,        \* what the growth query returned, before cleaning
    forecast_summary,  \* load_forecast_data()[0]
    yoy_growth,        \* load_forecast_data()[1]
    predictions,       \* load_forecast_data()[2]
    map_metric,        \* the selectbox value
    map_data,          \* the merged table
    map_data_clean,    \* the validated table
    rendered,          \* the page sections drawn so far
    errors,            \* st.error calls of this run, in order
    warnings,          \* st.warning calls of this run, in order
    deep_dive,         \* the State Deep Dive tab: the row shown and its volatility
    \* ---- repeated loads through st.cache_data (SpecCache)
    loader,            \* whose load_forecast_data: "data_loader" | "streamlit_app"
    FORECAST_TABLE,    \* the table name in the sidebar text input
    cache,             \* st.cache_data's entries of load_forecast_data, by key
    loads,             \* the loads so far, oldest first
    \* ---- the columns of the fetched tables through data_loader.py (SpecCols)
    cstage,            \* "fetched" | "loaded" | "merged" | "raised"
    summary_cols,      \* the columns of the table the summary query returned
    growth_frame,      \* the growth table: None, or its columns and emptiness
    skipped,           \* the tables whose STATE cleaning the loader skipped
    merged_cols,       \* the columns of the table prepare_map_data returned
    \* ---- one cell of an identifier column through the cleaning chain (SpecCell)
    id_cell,           \* the cell as the query returned it
    id_pos,            \* how many steps of the chain have run
    id_cur,            \* the cell after those steps
    id_raised,         \* a step raised
    \* ---- calls of create_choropleth_map on the shared GeoJSON (SpecGeo)
    geo,               \* US_STATES_GEOJSON: each feature's value and fill_color
    geo_call,          \* what the latest call computed
    geo_calls          \* the calls so far

normVars == <<nstage, raw, norm, norm2>>
runVars == <<pc, raw_summary, raw_growth, forecast_summary, yoy_growth,
             predictions, map_metric, map_data, map_data_clean, rendered,
             errors, warnings, deep_dive>>
cacheVars == <<loader, FORECAST_TABLE, cache, loads>>
vars == <<nstage, raw, norm, norm2, pc, raw_summary, raw_growth,
          forecast_summary, yoy_growth, predictions, map_metric, map_data,
          map_data_clean, rendered, errors, warnings, deep_dive, loader,
          FORECAST_TABLE,
          cache, loads, cstage, summary_cols, growth_frame, skipped,
          merged_cols, id_cell, id_pos, id_cur, id_raised, geo, geo_call,
          geo_calls>>
geoVars == <<geo, geo_call, geo_calls>>
cellVars == <<id_cell, id_pos, id_cur, id_raised>>
colVars == <<cstage, summary_cols, growth_frame, skipped, merged_cols>>
\* what an action of one specification leaves alone
besidesNorm == <<runVars, cacheVars, colVars, cellVars, geoVars>>
besidesRun == <<normVars, cacheVars, colVars, cellVars, geoVars>>
besidesCache == <<normVars, runVars, colVars, cellVars, geoVars>>
besidesCols == <<normVars, runVars, cacheVars, cellVars, geoVars>>
besidesCell == <<normVars, runVars, cacheVars, colVars, geoVars>>
besidesGeo == <<normVars, runVars, cacheVars, colVars, cellVars>>

---------------------------------------------------------------------------
(* Bounds *)

\* longest raw identifier typed in SpecNorm
MaxLen == 4
\* most rows the summary query returns
MaxRows == 2
\* most rows the growth query returns
MaxGrowthRows == 2
\* most loads of one session in SpecCache
MaxLoads == 3
\* calls of create_choropleth_map in one process
MaxCalls == 2

---------------------------------------------------------------------------
(* Strings *)

DQ == "\""
SQ == "'"
Whitespace == {" ", "\t", "\n", "\r"}

LowerLetters == <<"a","b","c","d","e","f","g","h","i","j","k","l","m",
                  "n","o","p","q","r","s","t","u","v","w","x","y","z">>
UpperLetters == <<"A","B","C","D","E","F","G","H","I","J","K","L","M",
                  "N","O","P","Q","R","S","T","U","V","W","X","Y","Z">>
AZ == {UpperLetters[i] : i \in 1..Len(UpperLetters)}

\* A NULL / None cell of an object column.
NullId == <<"NULL">>

\* str(v), as Series.astype(str) applies it: None becomes the text "None".
AsStr(v) == IF v = NullId THEN <<"N","o","n","e">> ELSE v

RECURSIVE LStrip(_)
LStrip(s) ==
    IF s = <<>> THEN <<>>
    ELSE IF Head(s) \in Whitespace THEN LStrip(Tail(s)) ELSE s

RECURSIVE RStrip(_)
RStrip(s) ==
    IF s = <<>> THEN <<>>
    ELSE IF s[Len(s)] \in Whitespace THEN RStrip(SubSeq(s, 1, Len(s) - 1)) ELSE s

\* str.strip()
Strip(s) == RStrip(LStrip(s))

\* str.replace(ch, '', regex=False): every occurrence of ch removed
RECURSIVE RemoveAll(_, _)
RemoveAll(s, ch) ==
    IF s = <<>> THEN <<>>
    ELSE IF Head(s) = ch THEN RemoveAll(Tail(s), ch)
         ELSE <<Head(s)>> \o RemoveAll(Tail(s), ch)

UpperChar(c) ==
    IF \E i \in 1..Len(LowerLetters) : LowerLetters[i] = c
    THEN UpperLetters[CHOOSE i \in 1..Len(LowerLetters) : LowerLetters[i] = c]
    ELSE c

\* str.upper()
Upper(s) == [i \in 1..Len(s) |-> UpperChar(s[i])]

\* A plausible slip: quotes stripped at the two ends only (str.strip('"\'')).
RECURSIVE StripEndQuotes(_)
StripEndQuotes(s) ==
    IF s = <<>> THEN <<>>
    ELSE IF Head(s) \in {DQ, SQ} THEN StripEndQuotes(Tail(s))
    ELSE IF s[Len(s)] \in {DQ, SQ} THEN StripEndQuotes(SubSeq(s, 1, Len(s) - 1))
    ELSE s

CleanState_EndQuotesOnly(v) == Upper(Strip(StripEndQuotes(Strip(AsStr(v)))))

\* A plausible slip: the second .str.strip() left out.
CleanState_NoSecondStrip(v) ==
    Upper(RemoveAll(RemoveAll(Strip(AsStr(v)), DQ), SQ))

\* The cleaning chain applied to STATE / SERIES:
\* .astype(str).str.strip().str.replace('"','').str.replace("'",'')
\* .str.strip().str.upper()
CleanState(v) ==
    Upper(Strip(RemoveAll(RemoveAll(Strip(AsStr(v)), DQ), SQ)))

---------------------------------------------------------------------------
(* SpecNorm: one raw identifier is typed character by character, cleaned,
   and cleaned again. *)

Alphabet == {" ", DQ, SQ, "c", "a", "C", "A", "4"}

NormInit ==
    /\ nstage = "input"
    /\ raw = <<>>
    /\ norm = <<>>
    /\ norm2 = <<>>

TypeChar ==
    /\ nstage = "input"
    /\ Len(raw) < MaxLen
    /\ \E c \in Alphabet : raw' = Append(raw, c)
    /\ UNCHANGED <<nstage, norm, norm2>>
    /\ UNCHANGED besidesNorm

Normalize ==
    /\ nstage = "input"
    /\ norm' = CleanState(raw)
    /\ nstage' = "normalized"
    /\ UNCHANGED <<raw, norm2>>
    /\ UNCHANGED besidesNorm

Renormalize ==
    /\ nstage = "normalized"
    /\ norm2' = CleanState(norm)
    /\ nstage' = "renormalized"
    /\ UNCHANGED <<raw, norm>>
    /\ UNCHANGED besidesNorm

\* Python's None where a table is expected, and a loaded DataFrame
NoneTable == [present |-> FALSE, rows |-> <<>>]
Table(rows) == [present |-> TRUE, rows |-> rows]

\* the State Deep Dive tab before it is drawn
NoDeepDive == [shown |-> FALSE]

RunIdle ==
    /\ pc = "idle"
    /\ raw_summary = NoneTable
    /\ raw_growth = NoneTable
    /\ forecast_summary = NoneTable
    /\ yoy_growth = NoneTable
    /\ predictions = NoneTable
    /\ map_metric = ""
    /\ map_data = <<>>
    /\ map_data_clean = <<>>
    /\ rendered = {}
    /\ errors = <<>>
    /\ warnings = <<>>
    /\ deep_dive = NoDeepDive

\* no load through the cache is under way
CacheIdle ==
    /\ loader = "none"
    /\ FORECAST_TABLE = ""
    /\ cache = <<>>
    /\ loads = <<>>

\* a frame known by its columns only: None, or a table with or without rows
NoneFrame == [present |-> FALSE, nonempty |-> FALSE, cols |-> {}]
Frame(nonempty, cols) == [present |-> TRUE, nonempty |-> nonempty, cols |-> cols]

\* no column bookkeeping is under way
ColsIdle ==
    /\ cstage = "idle"
    /\ summary_cols = {}
    /\ growth_frame = NoneFrame
    /\ skipped = {}
    /\ merged_cols = {}

\* a Python value in a cell: a str (its characters in s), None, an int n, a
\* float n.f with one decimal digit, or the float NaN
StrCell(s) == [t |-> "str", s |-> s, n |-> 0, f |-> 0]
NoneCell == [t |-> "none", s |-> <<>>, n |-> 0, f |-> 0]
IntCell(n) == [t |-> "int", s |-> <<>>, n |-> n, f |-> 0]
FloatCell(n, f) == [t |-> "float", s |-> <<>>, n |-> n, f |-> f]
NanCell == [t |-> "nan", s |-> <<>>, n |-> 0, f |-> 0]

\* no cell is in the chain
CellIdle ==
    /\ id_cell = NoneCell
    /\ id_pos = -1
    /\ id_cur = NoneCell
    /\ id_raised = FALSE

\* create_choropleth_map before its first call
NoCall == [made |-> FALSE]

\* no map call is under way
GeoIdle ==
    /\ geo = <<>>
    /\ geo_call = NoCall
    /\ geo_calls = -1

InitNorm == NormInit /\ RunIdle /\ CacheIdle /\ ColsIdle /\ CellIdle /\ GeoIdle

NormNext ==
    \/ TypeChar
    \/ Normalize
    \/ Renormalize

SpecNorm == InitNorm /\ [][NormNext]_vars

---------------------------------------------------------------------------
(* float64 cells *)

Abs(x) == IF x < 0 THEN -x ELSE x

RECURSIVE GCD(_, _)
GCD(a, b) == IF b = 0 THEN a ELSE GCD(b, a % b)

\* the rational n/d (d # 0) in lowest terms with a positive denominator
Rat(n, d) ==
    LET g == GCD(Abs(n), Abs(d))
        sgn == IF d < 0 THEN -1 ELSE 1
    IN [k |-> "num", n |-> sgn * (n \div g), d |-> sgn * (d \div g)]

Num(n) == [k |-> "num", n |-> n, d |-> 1]
NaN == [k |-> "nan", n |-> 0, d |-> 1]
PosInf == [k |-> "inf", n |-> 0, d |-> 1]
NegInf == [k |-> "ninf", n |-> 0, d |-> 1]
\* a non-numeric object in a column, such as the string 'n/a'
Text == [k |-> "text", n |-> 0, d |-> 1]

\* pandas isna(): NaN and None; inf and strings are not missing
IsNa(x) == x.k = "nan"
IsNum(x) == x.k = "num"
IsFloat(x) == x.k \in {"num", "inf", "ninf"}

\* a - b in IEEE arithmetic
FSub(a, b) ==
    IF IsNa(a) \/ IsNa(b) THEN NaN
    ELSE IF IsNum(a) /\ IsNum(b) THEN Rat(a.n * b.d - b.n * a.d, a.d * b.d)
    ELSE IF IsNum(b) THEN a
    ELSE IF IsNum(a) THEN (IF b.k = "inf" THEN NegInf ELSE PosInf)
    ELSE IF a.k = b.k THEN NaN
    ELSE a

\* a / b in IEEE arithmetic, as numpy divides float64 columns: x/0 is +-inf,
\* 0/0 is NaN, nothing is raised
FDiv(a, b) ==
    IF IsNa(a) \/ IsNa(b) THEN NaN
    ELSE IF IsNum(b) /\ b.n = 0 THEN
        (IF IsNum(a) THEN (IF a.n = 0 THEN NaN
                           ELSE IF a.n > 0 THEN PosInf ELSE NegInf)
         ELSE a)
    ELSE IF IsNum(b) THEN
        (IF IsNum(a) THEN Rat(a.n * b.d, a.d * b.n)
         ELSE IF (b.n > 0) = (a.k = "inf") THEN PosInf ELSE NegInf)
    ELSE IF IsNum(a) THEN Num(0)
    ELSE NaN

\* a * 100
FMul100(a) == IF IsNum(a) THEN Rat(a.n * 100, a.d) ELSE a

\* a <= b for floats that are not NaN
FLeq(a, b) ==
    IF a.k = "ninf" \/ b.k = "inf" THEN TRUE
    ELSE IF a.k = "inf" \/ b.k = "ninf" THEN FALSE
    ELSE a.n * b.d <= b.n * a.d

\* Series.fillna(0)
FillNa0(x) == IF IsNa(x) THEN Num(0) ELSE x

\* pd.to_numeric(errors='coerce') on one cell: what cannot be parsed is NaN
ToNumeric(x) == IF x.k = "text" THEN NaN ELSE x

---------------------------------------------------------------------------
(* Tables: a DataFrame is its rows in order (the STATE column is the field
   State, STATE being a reserved word); a table variable is
   [present, rows], with present = FALSE for Python's None. *)

SummaryRow(state, mean, std, lo, hi) ==
    [State |-> state, MEAN_PREMIUM |-> mean, PREMIUM_STDDEV |-> std,
     MIN_PREMIUM |-> lo, MAX_PREMIUM |-> hi]

GrowthRow(state, pct) == [State |-> state, YOY_GROWTH_PCT |-> pct]

\* The rows the summary table may hold, in the order ORDER BY state returns
\* them (binary collation, NULL last).
SummaryRows == <<
    SummaryRow(<<>>, Num(500), Num(50), Num(400), Num(600)),
    SummaryRow(<<" ","C","a"," ">>, Num(0), Num(0), Num(0), Num(0)),
    SummaryRow(<<DQ,"c","a",DQ>>, Num(0), Num(5), Num(0), Num(10)),
    SummaryRow(<<SQ,"C","A",SQ>>, NaN, Num(100), Num(800), Num(1200)),
    SummaryRow(<<"C","4">>, Num(500), Num(50), Num(400), Num(600)),
    SummaryRow(<<"C","4","A">>, Num(1200), Num(60), Num(1000), Num(1500)),
    SummaryRow(<<"C","A">>, Num(1000), Num(100), Num(800), Num(1200)),
    SummaryRow(<<"C","a","l","i","f","o","r","n","i","a">>,
               Num(500), Num(50), Num(400), Num(600)),
    SummaryRow(<<"T","X">>, Num(900), Num(90), Num(700), Num(1100)),
    SummaryRow(<<"U","S","A">>, Num(700), Num(70), Num(600), Num(900)),
    SummaryRow(<<"u","s","a">>, Num(800), Num(40), Num(700), Num(1000)),
    SummaryRow(NullId, Num(500), Num(50), Num(400), Num(600)) >>

\* The rows the growth table may hold, in ORDER BY state order.
GrowthRows == <<
    GrowthRow(<<SQ,"c","a",SQ>>, Num(7)),
    GrowthRow(<<"C","A">>, Num(5)),
    GrowthRow(<<"T","X">>, NaN),
    GrowthRow(<<"U","S","A">>, Text) >>

\* the strictly increasing index sequences over 1..n of length at most max
Picks(n, max) ==
    {p \in UNION {[1..m -> 1..n] : m \in 0..max} :
        \A i \in 1..Len(p), j \in 1..Len(p) : i < j => p[i] < p[j]}

\* the tables a query over the candidate rows may return
TablesOf(cands, max) ==
    {[i \in 1..Len(p) |-> cands[p[i]]] : p \in Picks(Len(cands), max)}

\* A plausible slip: the STATE column returned as fetched.
CleanStateColumn_Skipped(rows) == rows

\* forecast_summary['STATE'] = forecast_summary['STATE'].astype(str)...upper()
CleanStateColumn(rows) ==
    [i \in 1..Len(rows) |-> [rows[i] EXCEPT !.State = CleanState(rows[i].State)]]

\* predictions['SERIES'] = ... the same chain
CleanSeriesColumn(rows) ==
    [i \in 1..Len(rows) |-> [rows[i] EXCEPT !.SERIES = CleanState(rows[i].SERIES)]]

\* the predictions table, when it loads
PredictionRows == << [SERIES |-> <<SQ,"t","x",SQ>>, FORECAST |-> Num(950)] >>

---------------------------------------------------------------------------
(* prepare_map_data *)

WithGrowth(l, pct) ==
    [idx |-> 0, State |-> l.State, MEAN_PREMIUM |-> l.MEAN_PREMIUM,
     PREMIUM_STDDEV |-> l.PREMIUM_STDDEV, MIN_PREMIUM |-> l.MIN_PREMIUM,
     MAX_PREMIUM |-> l.MAX_PREMIUM, YOY_GROWTH_PCT |-> pct,
     PRICE_RANGE |-> NaN, VOLATILITY |-> NaN]

\* A plausible slip: how='inner', which drops a left row without a match.
UnmatchedLeft_Inner(l) == <<>>

\* A plausible slip: the unmatched growth filled with 0, as in the copy branch.
UnmatchedLeft_Zero(l) == << WithGrowth(l, Num(0)) >>

\* how='left': a left row with no match is kept, its right columns NaN
UnmatchedLeft(l) == << WithGrowth(l, NaN) >>

\* A plausible slip: the growth rows de-duplicated by STATE before the join,
\* so that a left row takes its first match only.
RECURSIVE MergeLeft_FirstMatch(_, _)
MergeLeft_FirstMatch(left, right) ==
    IF left = <<>> THEN <<>>
    ELSE LET l == Head(left)
             m == SelectSeq(right, LAMBDA g : g.State = l.State)
         IN (IF m = <<>> THEN UnmatchedLeft(l)
             ELSE << WithGrowth(l, m[1].YOY_GROWTH_PCT) >>)
            \o MergeLeft_FirstMatch(Tail(left), right)

\* forecast_summary.merge(yoy_growth[['STATE','YOY_GROWTH_PCT']], on='STATE',
\* how='left'): left order kept, one output row per matching right row
RECURSIVE MergeLeft(_, _)
MergeLeft(left, right) ==
    IF left = <<>> THEN <<>>
    ELSE LET l == Head(left)
             m == SelectSeq(right, LAMBDA g : g.State = l.State)
         IN (IF m = <<>> THEN UnmatchedLeft(l)
             ELSE [j \in 1..Len(m) |-> WithGrowth(l, m[j].YOY_GROWTH_PCT)])
            \o MergeLeft(Tail(left), right)

\* A plausible slip: the column left missing instead of set to 0.
GrowthDefault_Missing == NaN

\* map_data['YOY_GROWTH_PCT'] = 0
GrowthDefault == Num(0)

\* A plausible slip: the operands swapped.
PriceRange_Swapped(r) == FSub(r.MIN_PREMIUM, r.MAX_PREMIUM)

\* map_data['MAX_PREMIUM'] - map_data['MIN_PREMIUM']
PriceRange(r) == FSub(r.MAX_PREMIUM, r.MIN_PREMIUM)

\* A plausible slip: the ratio not scaled to a percentage.
Volatility_NoPercent(r) == FillNa0(FDiv(r.PREMIUM_STDDEV, r.MEAN_PREMIUM))

\* (map_data['PREMIUM_STDDEV'] / map_data['MEAN_PREMIUM'] * 100).fillna(0)
Volatility(r) == FillNa0(FMul100(FDiv(r.PREMIUM_STDDEV, r.MEAN_PREMIUM)))

\* A plausible slip: how='outer', which adds the growth rows no summaries row
\* matches, their premium columns NaN.
MergeOrCopy_Outer(summary, growth) ==
    IF growth.present /\ Len(growth.rows) > 0
    THEN LET extra == SelectSeq(growth.rows, LAMBDA g :
                          \A i \in 1..Len(summary) : summary[i].State # g.State)
         IN MergeLeft(summary, growth.rows)
            \o [j \in 1..Len(extra) |->
                   WithGrowth(SummaryRow(extra[j].State, NaN, NaN, NaN, NaN),
                              extra[j].YOY_GROWTH_PCT)]
    ELSE [i \in 1..Len(summary) |-> WithGrowth(summary[i], GrowthDefault)]

\* the merge, or the copy with the default growth column
MergeOrCopy(summary, growth) ==
    IF growth.present /\ Len(growth.rows) > 0
    THEN MergeLeft(summary, growth.rows)
    ELSE [i \in 1..Len(summary) |-> WithGrowth(summary[i], GrowthDefault)]

\* Which DataFrame object a name refers to: an object is called by the name
\* that first held it, and "new" is an object made by the statement at hand.
\* A plausible slip: map_data = forecast_summary, without .copy().
CopyOf_Alias(obj) == obj

\* DataFrame.copy() returns a new object
CopyOf(obj) == "new"

\* DataFrame.merge, DataFrame.dropna and df[mask] return a new object
DerivedFrom(obj) == "new"

\* the object map_data names after the merge or the copy; the column
\* assignments that follow write into it
MapDataObject(growth) ==
    IF growth.present /\ Len(growth.rows) > 0
    THEN DerivedFrom("forecast_summary")
    ELSE CopyOf("forecast_summary")

\* prepare_map_data(forecast_summary, yoy_growth); idx is the RangeIndex label
\* the merge (or the copy) gives each row
PrepareMapData(summary, growth) ==
    LET merged == MergeOrCopy(summary, growth) IN
    [i \in 1..Len(merged) |->
        [merged[i] EXCEPT !.idx = i,
                          !.PRICE_RANGE = PriceRange(merged[i]),
                          !.VOLATILITY = Volatility(merged[i])]]

\* the rows of the forecast_summary object once prepare_map_data has returned:
\* those it was called with, unless map_data names the same object
SummaryAfterPrepare(summary, growth) ==
    IF MapDataObject(growth) = "forecast_summary"
    THEN PrepareMapData(summary, growth)
    ELSE summary

---------------------------------------------------------------------------
(* The map section of streamlit_app.py: metric lookup and validation *)

MetricOptions == {"Mean Premium", "YoY Growth %", "Premium Volatility", "Price Range"}

\* the keys of metric_config
MetricConfigKeys ==
    {"Mean Premium", "YoY Growth %", "Premium Volatility", "Price Range"}

\* A plausible slip: a column name that prepare_map_data does not write.
MetricColumn_Typo(m) ==
    CASE m = "Mean Premium" -> "MEAN_PREMIUM"
      [] m = "YoY Growth %" -> "YOY_GROWTH_PCT"
      [] m = "Premium Volatility" -> "VOLATILITY_PCT"
      [] m = "Price Range" -> "PRICE_RANGE"

\* metric_config[map_metric]['column']
MetricColumn(m) ==
    CASE m = "Mean Premium" -> "MEAN_PREMIUM"
      [] m = "YoY Growth %" -> "YOY_GROWTH_PCT"
      [] m = "Premium Volatility" -> "VOLATILITY"
      [] m = "Price Range" -> "PRICE_RANGE"

\* map_data.dropna(subset=[color_col, 'STATE'])
DropNaMetricState(rows, col) ==
    SelectSeq(rows, LAMBDA r : ~IsNa(r[col]) /\ r.State # NullId)

\* map_data_clean[color_col] = pd.to_numeric(map_data_clean[color_col], errors='coerce')
CoerceMetric(rows, col) ==
    [i \in 1..Len(rows) |-> [rows[i] EXCEPT ![col] = ToNumeric(rows[i][col])]]

\* map_data_clean.dropna(subset=[color_col])
DropNaMetric(rows, col) == SelectSeq(rows, LAMBDA r : ~IsNa(r[col]))

\* .str.replace(r'[^A-Z]', '', regex=True)
KeepAZ(s) == SelectSeq(s, LAMBDA c : c \in AZ)

\* A plausible slip: the regex replacement left out.
FinalStateCleanup_NoRegex(v) == Upper(Strip(AsStr(v)))

\* the "final cleanup" chain: .astype(str).str.strip().str.upper()
\* .str.replace(r'[^A-Z]', '', regex=True)
FinalStateCleanup(v) == KeepAZ(Upper(Strip(AsStr(v))))

CleanupStateColumn(rows) ==
    [i \in 1..Len(rows) |-> [rows[i] EXCEPT !.State = FinalStateCleanup(rows[i].State)]]

\* A plausible slip: the length test taken as a lower limit.
TwoCharCodes_AtLeastTwo(rows) == SelectSeq(rows, LAMBDA r : Len(r.State) >= 2)

\* A plausible slip: the length test taken as an upper limit.
TwoCharCodes_AtMostTwo(rows) == SelectSeq(rows, LAMBDA r : Len(r.State) <= 2)

\* map_data_clean[map_data_clean['STATE'].str.len() == 2]
TwoCharCodes(rows) == SelectSeq(rows, LAMBDA r : Len(r.State) = 2)

\* A plausible slip: the length test run before the STATE cleanup, so that
\* the order of the steps decides which rows survive.
ValidateMapData_FilterBeforeCleanup(rows, col) ==
    LET s1 == DropNaMetricState(rows, col) IN
    IF Len(s1) = 0 THEN [clean |-> s1, outcome |-> "no_valid_data"]
    ELSE LET s2 == DropNaMetric(CoerceMetric(s1, col), col) IN
         IF Len(s2) = 0 THEN [clean |-> s2, outcome |-> "no_valid_numeric"]
         ELSE LET s3 == CleanupStateColumn(TwoCharCodes(s2)) IN
              IF Len(s3) = 0 THEN [clean |-> s3, outcome |-> "no_valid_codes"]
              ELSE [clean |-> s3, outcome |-> "ok"]

\* The validation of the map data for one metric column: the table left in
\* map_data_clean and the branch taken.
ValidateMapData(rows, col) ==
    LET s1 == DropNaMetricState(rows, col) IN
    IF Len(s1) = 0 THEN [clean |-> s1, outcome |-> "no_valid_data"]
    ELSE LET s2 == DropNaMetric(CoerceMetric(s1, col), col) IN
         IF Len(s2) = 0 THEN [clean |-> s2, outcome |-> "no_valid_numeric"]
         ELSE LET s3 == TwoCharCodes(CleanupStateColumn(s2)) IN
              IF Len(s3) = 0 THEN [clean |-> s3, outcome |-> "no_valid_codes"]
              ELSE [clean |-> s3, outcome |-> "ok"]

\* the object map_data_clean names while its metric column (line 288) and its
\* STATE column (lines 299-303) are assigned
CleanObject == CopyOf(DerivedFrom("map_data"))

\* the rows of the map_data object once the validation is over: untouched,
\* unless map_data_clean names the same object
MapDataAfterValidation(rows, col) ==
    IF CleanObject = "map_data"
    THEN CleanupStateColumn(CoerceMetric(rows, col))
    ELSE rows

\* Series.min() / Series.max() of a non-empty column without NaN
ColMin(rows, col) ==
    LET i == CHOOSE i \in 1..Len(rows) :
                 \A j \in 1..Len(rows) : FLeq(rows[i][col], rows[j][col])
    IN rows[i][col]

ColMax(rows, col) ==
    LET i == CHOOSE i \in 1..Len(rows) :
                 \A j \in 1..Len(rows) : FLeq(rows[j][col], rows[i][col])
    IN rows[i][col]

\* (map_data_with_coords[color_col] - min_val) / (max_val - min_val), one row
Normalized(rows, col, i) ==
    FDiv(FSub(rows[i][col], ColMin(rows, col)),
         FSub(ColMax(rows, col), ColMin(rows, col)))

\* int(255 * x) and the like raise on NaN and on an infinity
MapRaises(rows, col) ==
    \E i \in 1..Len(rows) : ~IsNum(Normalized(rows, col, i))

---------------------------------------------------------------------------
(* One script run of streamlit_app.py *)

\* what a query may do: raise, or return a table
SummaryResults == TablesOf(SummaryRows, MaxRows)
GrowthResults == TablesOf(GrowthRows, MaxGrowthRows)

RunInit ==
    /\ pc = "start"
    /\ raw_summary = NoneTable
    /\ raw_growth = NoneTable
    /\ forecast_summary = NoneTable
    /\ yoy_growth = NoneTable
    /\ predictions = NoneTable
    /\ map_metric = ""
    /\ map_data = <<>>
    /\ map_data_clean = <<>>
    /\ rendered = {}
    /\ errors = <<>>
    /\ warnings = <<>>
    /\ deep_dive = NoDeepDive

NormIdle ==
    /\ nstage = "idle"
    /\ raw = <<>>
    /\ norm = <<>>
    /\ norm2 = <<>>

Init == RunInit /\ NormIdle /\ CacheIdle /\ ColsIdle /\ CellIdle /\ GeoIdle

\* load_forecast_data(): the summary query raises; the outer handler reports
\* it and returns (None, None, None)
LoadSummaryFails ==
    /\ pc = "start"
    /\ errors' = Append(errors, "critical_error_loading")
    /\ forecast_summary' = NoneTable
    /\ yoy_growth' = NoneTable
    /\ predictions' = NoneTable
    /\ pc' = "loaded"
    /\ UNCHANGED <<raw_summary, raw_growth, map_metric, map_data,
                   map_data_clean, rendered, warnings>>
    /\ UNCHANGED deep_dive
    /\ UNCHANGED besidesRun

\* load_forecast_data(): the summary query returns; the growth and the
\* predictions query each return or raise
LoadForecastData ==
    /\ pc = "start"
    /\ \E s \in SummaryResults :
          /\ raw_summary' = Table(s)
          /\ forecast_summary' = Table(CleanStateColumn(s))
    /\ \E growthOk \in BOOLEAN, predOk \in BOOLEAN :
          /\ IF growthOk
             THEN \E g \in GrowthResults :
                     /\ raw_growth' = Table(g)
                     /\ yoy_growth' = Table(CleanStateColumn(g))
             ELSE /\ raw_growth' = NoneTable
                  /\ yoy_growth' = NoneTable
          /\ predictions' = IF predOk THEN Table(CleanSeriesColumn(PredictionRows))
                            ELSE NoneTable
          /\ warnings' = warnings
                 \o (IF growthOk THEN <<>> ELSE <<"growth_unavailable">>)
                 \o (IF predOk THEN <<>> ELSE <<"predictions_unavailable">>)
    /\ pc' = "loaded"
    /\ UNCHANGED <<map_metric, map_data, map_data_clean, rendered, errors>>
    /\ UNCHANGED deep_dive
    /\ UNCHANGED besidesRun

\* A plausible slip: the row count not tested.
SummaryLoaded_NotNoneOnly == forecast_summary.present

\* if forecast_summary is not None and len(forecast_summary) > 0
SummaryLoaded == forecast_summary.present /\ Len(forecast_summary.rows) > 0

\* validate_data(df, name): st.sidebar.error when df is None or empty
NoDataErrors(df, name) ==
    IF df.present /\ Len(df.rows) > 0 THEN <<>> ELSE <<name>>

\* The else branch of the script: the top-level error, the troubleshooting
\* text and the connection test, which may itself fail.
LoadFailedBranch ==
    /\ pc = "loaded"
    /\ ~SummaryLoaded
    /\ \E connected \in BOOLEAN :
          /\ errors' = Append(errors, "unable_to_load")
                 \o (IF connected THEN <<>> ELSE <<"connection_error">>)
          /\ rendered' = rendered \cup {"troubleshooting", "footer"}
                 \cup (IF connected THEN {"connection_status"} ELSE {})
    /\ pc' = "done"
    /\ UNCHANGED <<raw_summary, raw_growth, forecast_summary, yoy_growth,
                   predictions, map_metric, map_data, map_data_clean, warnings>>
    /\ UNCHANGED deep_dive
    /\ UNCHANGED besidesRun

\* The KPI row raises: idxmax()/.loc on an all-NaN MEAN_PREMIUM column, or
\* mean() of a YOY_GROWTH_PCT column that holds a string.
KpiRaises ==
    \/ \A i \in 1..Len(forecast_summary.rows) :
           IsNa(forecast_summary.rows[i].MEAN_PREMIUM)
    \/ /\ yoy_growth.present
       /\ \E i \in 1..Len(yoy_growth.rows) :
             yoy_growth.rows[i].YOY_GROWTH_PCT.k = "text"

\* data status sidebar, then the KPI row raises: the script run ends there
KpiRowRaises ==
    /\ pc = "loaded"
    /\ SummaryLoaded
    /\ KpiRaises
    /\ errors' = errors \o NoDataErrors(yoy_growth, "no_data_growth")
                        \o NoDataErrors(predictions, "no_data_predictions")
    /\ rendered' = rendered \cup {"data_status", "exception"}
    /\ pc' = "crashed"
    /\ UNCHANGED <<raw_summary, raw_growth, forecast_summary, yoy_growth,
                   predictions, map_metric, map_data, map_data_clean, warnings>>
    /\ UNCHANGED deep_dive
    /\ UNCHANGED besidesRun

\* data status sidebar, KPI row, and the metric selectbox
RenderKpiAndControls ==
    /\ pc = "loaded"
    /\ SummaryLoaded
    /\ ~KpiRaises
    /\ errors' = errors \o NoDataErrors(yoy_growth, "no_data_growth")
                        \o NoDataErrors(predictions, "no_data_predictions")
    /\ rendered' = rendered \cup {"data_status", "kpi", "controls"}
    /\ \E m \in MetricOptions : map_metric' = m
    /\ pc' = "controls"
    /\ UNCHANGED <<raw_summary, raw_growth, forecast_summary, yoy_growth,
                   predictions, map_data, map_data_clean, warnings>>
    /\ UNCHANGED deep_dive
    /\ UNCHANGED besidesRun

\* "Prepare map data" and "Calculate derived metrics"
PrepareMap ==
    /\ pc = "controls"
    /\ map_data' = PrepareMapData(forecast_summary.rows, yoy_growth)
    /\ forecast_summary' =
           Table(SummaryAfterPrepare(forecast_summary.rows, yoy_growth))
    /\ pc' = "merged"
    /\ UNCHANGED <<raw_summary, raw_growth, yoy_growth, predictions,
                   map_metric, map_data_clean, rendered, errors, warnings>>
    /\ UNCHANGED deep_dive
    /\ UNCHANGED besidesRun

\* the st.error of the branch the validation ends in
ValidationErrors(outcome) == IF outcome = "ok" THEN <<>> ELSE <<outcome>>

\* "Data validation for map": dropna, coercion, state-code cleanup and filter
ValidateMap ==
    /\ pc = "merged"
    /\ LET v == ValidateMapData(map_data, MetricColumn(map_metric)) IN
          /\ map_data_clean' = v.clean
          /\ map_data' = MapDataAfterValidation(map_data, MetricColumn(map_metric))
          /\ errors' = errors \o ValidationErrors(v.outcome)
          /\ pc' = IF v.outcome = "ok" THEN "validated" ELSE "map_done"
    /\ UNCHANGED <<raw_summary, raw_growth, forecast_summary, yoy_growth,
                   predictions, map_metric, rendered, warnings>>
    /\ UNCHANGED deep_dive
    /\ UNCHANGED besidesRun

\* the pydeck map, the statistics and the bar chart
RenderMap ==
    /\ pc = "validated"
    /\ ~MapRaises(map_data_clean, MetricColumn(map_metric))
    /\ rendered' = rendered \cup {"map", "map_stats", "bar_chart"}
    /\ pc' = "map_done"
    /\ UNCHANGED <<raw_summary, raw_growth, forecast_summary, yoy_growth,
                   predictions, map_metric, map_data, map_data_clean, errors,
                   warnings>>
    /\ UNCHANGED deep_dive
    /\ UNCHANGED besidesRun

\* the colour computation raises: the except branch draws the fallback chart
RenderMapFallback ==
    /\ pc = "validated"
    /\ MapRaises(map_data_clean, MetricColumn(map_metric))
    /\ errors' = Append(errors, "map_visualization_error")
    /\ rendered' = rendered \cup {"fallback_chart"}
    /\ pc' = "map_done"
    /\ UNCHANGED <<raw_summary, raw_growth, forecast_summary, yoy_growth,
                   predictions, map_metric, map_data, map_data_clean, warnings>>
    /\ UNCHANGED deep_dive
    /\ UNCHANGED besidesRun

\* sorted(forecast_summary['STATE'].unique())
AvailableStates(rows) == {rows[i].State : i \in 1..Len(rows)}

\* forecast_summary[forecast_summary['STATE'] == selected_state].iloc[0]
StateData(rows, selected_state) ==
    rows[CHOOSE i \in 1..Len(rows) :
             /\ rows[i].State = selected_state
             /\ \A j \in 1..(i - 1) : rows[j].State # selected_state]

\* volatility = (state_data['PREMIUM_STDDEV'] / state_data['MEAN_PREMIUM'] * 100)
DeepDiveVolatility(state_data) ==
    FMul100(FDiv(state_data.PREMIUM_STDDEV, state_data.MEAN_PREMIUM))

\* display_summary_cards: the per-state values whose mean() is the
\* "Avg Volatility" card
CardVolatilities(rows) ==
    [i \in 1..Len(rows) |->
        FMul100(FDiv(rows[i].PREMIUM_STDDEV, rows[i].MEAN_PREMIUM))]

\* the analysis tabs, with the deep dive of the selected state, and the footer
RenderTabs ==
    /\ pc = "map_done"
    /\ \E selected_state \in AvailableStates(forecast_summary.rows) :
          LET state_data == StateData(forecast_summary.rows, selected_state) IN
          deep_dive' = [shown |-> TRUE, state_data |-> state_data,
                        volatility |-> DeepDiveVolatility(state_data)]
    /\ rendered' = rendered \cup {"tabs", "footer"}
    /\ pc' = "done"
    /\ UNCHANGED <<raw_summary, raw_growth, forecast_summary, yoy_growth,
                   predictions, map_metric, map_data, map_data_clean, errors,
                   warnings>>
    /\ UNCHANGED besidesRun

Next ==
    \/ LoadSummaryFails
    \/ LoadForecastData
    \/ LoadFailedBranch
    \/ KpiRowRaises
    \/ RenderKpiAndControls
    \/ PrepareMap
    \/ ValidateMap
    \/ RenderMap
    \/ RenderMapFallback
    \/ RenderTabs

Spec == Init /\ [][Next]_vars

---------------------------------------------------------------------------
(* Repeated loads through st.cache_data (SpecCache).  A fetched table is
   abstracted to [present, source, n]: the table the query read and whether
   it returned rows (n = 1) or none (n = 0). *)

\* the two modules that define a cached load_forecast_data
Loaders == {"data_loader", "streamlit_app"}

\* what the sidebar text input may hold; the first is its default value
DefaultTable == "premium_forecast_summary"
TableNames == {DefaultTable, "premium_forecast_summary_v2"}

GrowthTable == "yoy_growth_all_states"
PredictionsTable == "premium_predictions_12months"

\* st.cache_data keys an entry by the arguments of the call: data_loader's
\* load_forecast_data(forecast_table) has one, streamlit_app's
\* load_forecast_data() has none and reads the global FORECAST_TABLE
CacheKey(ld, table) == IF ld = "data_loader" THEN <<table>> ELSE <<>>

CacheKeys == {<<>>} \cup {<<t>> : t \in TableNames}

NoneData == [present |-> FALSE, source |-> "", n |-> 0]
Data(source, n) == [present |-> TRUE, source |-> source, n |-> n]

\* what session.sql(...).to_pandas() may do
SummaryFetches == {"raises", "empty", "rows"}
OptionalFetches == {"raises", "rows"}

\* the outer handler: st.error, return None, None, None
LoaderAborts(queries) ==
    [summary |-> NoneData, growth |-> NoneData, predictions |-> NoneData,
     queries |-> queries, warnings |-> <<>>, errors |-> <<"error_loading">>]

\* A plausible slip: the growth query not wrapped in a try of its own, so
\* that its exception reaches the outer handler.
LoaderRun_NoInnerTry(table, so, go, po) ==
    IF so = "raises" THEN LoaderAborts(<<table>>)
    ELSE IF go = "raises" THEN LoaderAborts(<<table, GrowthTable>>)
    ELSE [summary |-> Data(table, IF so = "rows" THEN 1 ELSE 0),
          growth |-> Data(GrowthTable, 1),
          predictions |-> IF po = "raises" THEN NoneData
                          ELSE Data(PredictionsTable, 1),
          queries |-> <<table, GrowthTable, PredictionsTable>>,
          warnings |-> IF po = "raises" THEN <<"predictions_unavailable">>
                       ELSE <<>>,
          errors |-> <<>>]

\* The body of load_forecast_data for one table name, given what each of its
\* three queries does: the returned tuple, the queries issued in order, and
\* the st.warning / st.error calls.
LoaderRun(table, so, go, po) ==
    IF so = "raises" THEN LoaderAborts(<<table>>)
    ELSE [summary |-> Data(table, IF so = "rows" THEN 1 ELSE 0),
          growth |-> IF go = "raises" THEN NoneData ELSE Data(GrowthTable, 1),
          predictions |-> IF po = "raises" THEN NoneData
                          ELSE Data(PredictionsTable, 1),
          queries |-> <<table, GrowthTable, PredictionsTable>>,
          warnings |-> (IF go = "raises" THEN <<"growth_unavailable">> ELSE <<>>)
                       \o (IF po = "raises" THEN <<"predictions_unavailable">>
                           ELSE <<>>),
          errors |-> <<>>]

\* a session starts with an empty cache and the default table name
CacheInit ==
    /\ loader \in Loaders
    /\ FORECAST_TABLE = DefaultTable
    /\ cache = [k \in CacheKeys |-> <<>>]
    /\ loads = <<>>

InitCache ==
    CacheInit /\ NormIdle /\ RunIdle /\ ColsIdle /\ CellIdle /\ GeoIdle

\* A script run with table name t in the text input whose call of
\* load_forecast_data finds no entry under its key: the body runs, and
\* whatever it returns is stored.
LoadExecuted ==
    /\ loader \in Loaders
    /\ Len(loads) < MaxLoads
    /\ \E t \in TableNames, so \in SummaryFetches,
          go \in OptionalFetches, po \in OptionalFetches :
          LET k == CacheKey(loader, t)
              r == LoaderRun(t, so, go, po)
          IN /\ cache[k] = <<>>
             /\ FORECAST_TABLE' = t
             /\ cache' = [cache EXCEPT ![k] = <<r>>]
             /\ loads' = Append(loads,
                    [table |-> t, hit |-> FALSE,
                     fetched |-> [s |-> so,
                                  g |-> IF so = "raises" THEN "skipped" ELSE go,
                                  p |-> IF so = "raises" THEN "skipped" ELSE po],
                     ret |-> r])
    /\ UNCHANGED loader
    /\ UNCHANGED besidesCache

\* A script run whose call finds an entry under its key: the stored tuple is
\* returned and the stored messages are replayed; no query is issued.
LoadFromCache ==
    /\ loader \in Loaders
    /\ Len(loads) < MaxLoads
    /\ \E t \in TableNames :
          LET k == CacheKey(loader, t) IN
          /\ cache[k] # <<>>
          /\ FORECAST_TABLE' = t
          /\ loads' = Append(loads,
                 [table |-> t, hit |-> TRUE,
                  fetched |-> [s |-> "skipped", g |-> "skipped", p |-> "skipped"],
                  ret |-> [cache[k][1] EXCEPT !.queries = <<>>]])
    /\ UNCHANGED <<loader, cache>>
    /\ UNCHANGED besidesCache

CacheNext ==
    \/ LoadExecuted
    \/ LoadFromCache

SpecCache == InitCache /\ [][CacheNext]_vars

---------------------------------------------------------------------------
(* The columns of the fetched tables through load_forecast_data and
   prepare_map_data (SpecCols): SELECT * returns whatever columns the table
   has, and each statement that names a column either finds it or raises
   KeyError. *)

SummaryColumns ==
    {"STATE", "MEAN_PREMIUM", "PREMIUM_STDDEV", "MIN_PREMIUM", "MAX_PREMIUM"}
GrowthColumns == {"STATE", "YOY_GROWTH_PCT"}

\* the two queries have returned; the growth table is None when its query
\* raised
ColsInit ==
    /\ cstage = "fetched"
    /\ summary_cols \in SUBSET SummaryColumns
    /\ growth_frame \in {NoneFrame}
           \cup {Frame(ne, c) : ne \in BOOLEAN, c \in SUBSET GrowthColumns}
    /\ skipped = {}
    /\ merged_cols = {}

InitCols ==
    ColsInit /\ NormIdle /\ RunIdle /\ CacheIdle /\ CellIdle /\ GeoIdle

\* if 'STATE' in df.columns: ... the cleaning runs only when the column is
\* there; without it the loader goes on and returns the table as fetched
SkipsCleaning(present, cols) == present /\ "STATE" \notin cols

\* the rest of load_forecast_data once the queries have returned
LoadCols ==
    /\ cstage = "fetched"
    /\ skipped' = (IF SkipsCleaning(TRUE, summary_cols) THEN {"summaries"} ELSE {})
           \cup (IF SkipsCleaning(growth_frame.present, growth_frame.cols)
                 THEN {"growth"} ELSE {})
    /\ cstage' = "loaded"
    /\ UNCHANGED <<summary_cols, growth_frame, merged_cols>>
    /\ UNCHANGED besidesCols

\* if yoy_growth is not None and len(yoy_growth) > 0
FrameUsable(g) == g.present /\ g.nonempty

\* prepare_map_data raises KeyError: in the merge branch when the growth
\* table lacks STATE or YOY_GROWTH_PCT or the summaries lack STATE, and in
\* either branch when a column of the derived metrics is missing
PrepareRaises(scols, g) ==
    \/ /\ FrameUsable(g)
       /\ \/ ~({"STATE", "YOY_GROWTH_PCT"} \subseteq g.cols)
          \/ "STATE" \notin scols
    \/ ~({"MAX_PREMIUM", "MIN_PREMIUM"} \subseteq scols)
    \/ ~({"PREMIUM_STDDEV", "MEAN_PREMIUM"} \subseteq scols)

\* prepare_map_data raises; the exception is not caught
PrepareColsRaises ==
    /\ cstage = "loaded"
    /\ PrepareRaises(summary_cols, growth_frame)
    /\ cstage' = "raised"
    /\ UNCHANGED <<summary_cols, growth_frame, skipped, merged_cols>>
    /\ UNCHANGED besidesCols

\* prepare_map_data returns the merged table with its three added columns
PrepareColsReturns ==
    /\ cstage = "loaded"
    /\ ~PrepareRaises(summary_cols, growth_frame)
    /\ merged_cols' = summary_cols
           \cup {"YOY_GROWTH_PCT", "PRICE_RANGE", "VOLATILITY"}
    /\ cstage' = "merged"
    /\ UNCHANGED <<summary_cols, growth_frame, skipped>>
    /\ UNCHANGED besidesCols

ColsNext ==
    \/ LoadCols
    \/ PrepareColsRaises
    \/ PrepareColsReturns

SpecCols == InitCols /\ [][ColsNext]_vars

---------------------------------------------------------------------------
(* One cell of an identifier column through the cleaning chain, a step at a
   time (SpecCell).  A .str method works on a str; on another value it gives
   a missing value in an object column and raises AttributeError ("Can only
   use .str accessor with string values") in a numeric one. *)

DecimalDigits == <<"0","1","2","3","4","5","6","7","8","9">>

\* the decimal digits of a natural number
RECURSIVE Digits(_)
Digits(n) ==
    IF n < 10 THEN <<DecimalDigits[n + 1]>>
    ELSE Digits(n \div 10) \o <<DecimalDigits[(n % 10) + 1]>>

\* str(v)
PyStr(c) ==
    CASE c.t = "str" -> c.s
      [] c.t = "none" -> <<"N","o","n","e">>
      [] c.t = "nan" -> <<"n","a","n">>
      [] c.t = "int" ->
            (IF c.n < 0 THEN <<"-">> ELSE <<>>) \o Digits(Abs(c.n))
      [] c.t = "float" ->
            (IF c.n < 0 THEN <<"-">> ELSE <<>>) \o Digits(Abs(c.n))
                \o <<".">> \o Digits(c.f)

\* the strings of up to n characters over the alphabet
StringsUpTo(n) == UNION {[1..m -> Alphabet] : m \in 0..n}

\* what a cell of STATE or SERIES may hold when the query returns
Cells ==
    {StrCell(s) : s \in StringsUpTo(MaxLen)}
        \cup {NoneCell, NanCell}
        \cup {IntCell(n) : n \in {-5, 0, 42, 100}}
        \cup {FloatCell(n, f) : n \in {-5, 0, 42}, f \in {0, 5}}

\* A plausible slip: the chain without .astype(str).
ChainSteps_NoAstype == <<"strip", "replace_dq", "replace_sq", "strip", "upper">>

\* the chain of lines 32-38, in order
ChainSteps ==
    <<"astype", "strip", "replace_dq", "replace_sq", "strip", "upper">>

\* a .str method on a str
StrMethod(step, str) ==
    CASE step = "strip" -> Strip(str)
      [] step = "replace_dq" -> RemoveAll(str, DQ)
      [] step = "replace_sq" -> RemoveAll(str, SQ)
      [] step = "upper" -> Upper(str)

\* a step raises: a .str method on a column that is not of strings or objects
StepRaises(step, c) == step # "astype" /\ c.t \in {"int", "float", "nan"}

\* the cell after a step that does not raise
StepValue(step, c) ==
    IF step = "astype" THEN StrCell(PyStr(c))
    ELSE IF c.t = "str" THEN StrCell(StrMethod(step, c.s))
    ELSE c

CellInit ==
    /\ id_cell \in Cells
    /\ id_pos = 0
    /\ id_cur = id_cell
    /\ id_raised = FALSE

InitCell ==
    CellInit /\ NormIdle /\ RunIdle /\ CacheIdle /\ ColsIdle /\ GeoIdle

\* the next step of the chain runs
ChainStep ==
    /\ id_pos >= 0
    /\ id_pos < Len(ChainSteps)
    /\ ~id_raised
    /\ LET step == ChainSteps[id_pos + 1] IN
          /\ id_raised' = StepRaises(step, id_cur)
          /\ id_cur' = IF StepRaises(step, id_cur) THEN id_cur
                       ELSE StepValue(step, id_cur)
    /\ id_pos' = id_pos + 1
    /\ UNCHANGED id_cell
    /\ UNCHANGED besidesCell

CellNext == ChainStep

SpecCell == InitCell /\ [][CellNext]_vars

---------------------------------------------------------------------------
(* Calls of create_choropleth_map (SpecGeo).  US_STATES_GEOJSON is one
   module-level object: .copy() copies the outer dict only, so every call
   writes the properties of the same features.  A colour [r, g, b, 180] is
   kept as the scale and the normalised value it is computed from. *)

\* the codes of the features of US_STATES_GEOJSON, in list order
FeatureCodes == << <<"C","A">>, <<"N","Y">>, <<"T","X">> >>

\* a property no call has written yet
Unset == [k |-> "unset", n |-> 0, d |-> 1]
UnsetColor == [scale |-> "unset", level |-> Unset]

\* [200, 200, 200, 100]
Grey == [scale |-> "grey", level |-> Num(0)]

\* config['color_scale'] of metric_config[map_metric]
ColorScale(m) ==
    CASE m = "Mean Premium" -> "Reds"
      [] m = "YoY Growth %" -> "RdYlGn"
      [] m = "Premium Volatility" -> "Oranges"
      [] m = "Price Range" -> "Blues"

\* get_color_for_scale raises: int() of a NaN or of an infinity
ColorRaises(normalized_value) == ~IsNum(normalized_value)

\* get_color_for_scale(normalized_value, color_scale) when it returns
GetColorForScale(normalized_value, color_scale) ==
    [scale |-> color_scale, level |-> normalized_value]

\* round(float(value), 2): to the nearest hundredth, ties to even; an
\* infinity stays an infinity
Round2(x) ==
    IF ~IsNum(x) THEN x
    ELSE LET num == x.n * 100
             q == num \div x.d
             twice == 2 * (num - q * x.d)
         IN IF twice < x.d THEN Rat(q, 100)
            ELSE IF twice > x.d THEN Rat(q + 1, 100)
            ELSE Rat(IF q % 2 = 0 THEN q ELSE q + 1, 100)

\* dict(zip(map_data_clean['STATE'], map_data_clean[color_col])): the last
\* row of a state wins
StateValues(rows, col) ==
    [st \in {rows[i].State : i \in 1..Len(rows)} |->
        rows[CHOOSE i \in 1..Len(rows) :
                 /\ rows[i].State = st
                 /\ \A j \in (i + 1)..Len(rows) : rows[j].State # st][col]]

\* value_range = max_val - min_val if max_val != min_val else 1
ValueRange(min_val, max_val) ==
    IF max_val # min_val THEN FSub(max_val, min_val) ELSE Num(1)

\* normalized_value = (value - min_val) / value_range
NormalizedValue(value, min_val, value_range) ==
    FDiv(FSub(value, min_val), value_range)

\* the feature at which the loop stops because the colour computation
\* raises; 0 when the loop runs to its end
RaisesAt(state_values, min_val, value_range) ==
    LET raising == {k \in 1..Len(FeatureCodes) :
                       /\ FeatureCodes[k] \in DOMAIN state_values
                       /\ ColorRaises(NormalizedValue(
                              state_values[FeatureCodes[k]], min_val,
                              value_range))}
    IN IF raising = {} THEN 0
       ELSE CHOOSE k \in raising : \A j \in raising : k <= j

\* the body of the loop for one feature, when nothing raises
FeatureWritten(old, code, state_values, min_val, value_range, color_scale) ==
    IF code \in DOMAIN state_values
    THEN [value |-> Round2(state_values[code]),
          fill_color |-> GetColorForScale(
              NormalizedValue(state_values[code], min_val, value_range),
              color_scale)]
    ELSE [value |-> Num(0), fill_color |-> Grey]

\* the properties of feature k once the call is over: written in full before
\* the feature that raises, the value only at that feature (line 94 runs,
\* line 95 raises), untouched after it
FeatureAfter(k, old, state_values, min_val, value_range, color_scale) ==
    LET stop == RaisesAt(state_values, min_val, value_range)
        new == FeatureWritten(old, FeatureCodes[k], state_values, min_val,
                              value_range, color_scale)
    IN IF stop = 0 \/ k < stop THEN new
       ELSE IF k = stop
            THEN [old EXCEPT !.value = Round2(state_values[FeatureCodes[k]])]
       ELSE old

\* the validated tables and metrics the map is called with: what the
\* validation leaves of a merged table, for each metric
Validations ==
    {[v |-> ValidateMapData(PrepareMapData(CleanStateColumn(su), g),
                            MetricColumn(m)),
      metric |-> m] :
        su \in SummaryResults \ {<<>>},
        g \in {NoneTable} \cup {Table(CleanStateColumn(x)) : x \in GrowthResults},
        m \in MetricOptions}

ChoroplethInputs ==
    {[rows |-> x.v.clean, metric |-> x.metric] :
        x \in {y \in Validations : y.v.outcome = "ok"}}

GeoInit ==
    /\ geo = [k \in 1..Len(FeatureCodes) |->
                 [value |-> Unset, fill_color |-> UnsetColor]]
    /\ geo_call = NoCall
    /\ geo_calls = 0

InitGeo ==
    GeoInit /\ NormIdle /\ RunIdle /\ CacheIdle /\ ColsIdle /\ CellIdle

\* create_choropleth_map(map_data_clean, config, map_metric)
CreateChoroplethMap ==
    /\ geo_calls \in 0..(MaxCalls - 1)
    /\ \E in \in ChoroplethInputs :
          LET color_col == MetricColumn(in.metric)
              state_values == StateValues(in.rows, color_col)
              min_val == ColMin(in.rows, color_col)
              max_val == ColMax(in.rows, color_col)
              value_range == ValueRange(min_val, max_val)
              stop == RaisesAt(state_values, min_val, value_range)
              reached == {FeatureCodes[k] : k \in
                             {j \in 1..Len(FeatureCodes) :
                                 /\ stop = 0 \/ j <= stop
                                 /\ FeatureCodes[j] \in DOMAIN state_values}}
          IN /\ geo' = [k \in DOMAIN geo |->
                           FeatureAfter(k, geo[k], state_values, min_val,
                                        value_range, ColorScale(in.metric))]
             /\ geo_call' =
                    [made |-> TRUE,
                     metric |-> in.metric,
                     state_values |-> state_values,
                     min_val |-> min_val,
                     max_val |-> max_val,
                     value_range |-> value_range,
                     normalized |-> [st \in reached |->
                         NormalizedValue(state_values[st], min_val,
                                         value_range)],
                     raised |-> stop # 0]
    /\ geo_calls' = geo_calls + 1
    /\ UNCHANGED besidesGeo

GeoNext == CreateChoroplethMap

SpecGeo == InitGeo /\ [][GeoNext]_vars

---------------------------------------------------------------------------
(* Properties of the identifier normalisation (SpecNorm) *)

IsQuote(c) == c \in {DQ, SQ}
NotQuote(c) == c \notin {DQ, SQ}

\* u is the upper-case form of the character c
IsUpperOf(u, c) ==
    \/ \E i \in 1..Len(LowerLetters) : c = LowerLetters[i] /\ u = UpperLetters[i]
    \/ (\A i \in 1..Len(LowerLetters) : c # LowerLetters[i]) /\ u = c

\* C1: the value the loader leaves in STATE / SERIES is
\* upper(strip(removeAllQuotes(strip(str(v))))): it holds no quote character
\* anywhere, no whitespace at either end, and is, character for character, the
\* upper-case form of the raw value with every quote deleted and the whitespace
\* around what is left trimmed; '"ca"', "'CA'" and " Ca " all become "CA".
C1_NormalizeAsSpecified ==
    nstage # "input" =>
        LET f == SelectSeq(raw, NotQuote) IN
        /\ \A k \in 1..Len(norm) : ~IsQuote(norm[k])
        /\ norm # <<>> =>
              norm[1] \notin Whitespace /\ norm[Len(norm)] \notin Whitespace
        /\ \E i \in 1..(Len(f) + 1) :
              /\ \A k \in 1..(i - 1) : f[k] \in Whitespace
              /\ \A k \in (i + Len(norm))..Len(f) : f[k] \in Whitespace
              /\ i + Len(norm) - 1 <= Len(f)
              /\ \A k \in 1..Len(norm) : IsUpperOf(norm[k], f[i + k - 1])
        /\ raw = <<DQ, "c", "a", DQ>> => norm = <<"C", "A">>
        /\ raw = <<SQ, "C", "A", SQ>> => norm = <<"C", "A">>
        /\ raw = <<" ", "C", "a", " ">> => norm = <<"C", "A">>

\* a raw value with a quote in its interior has been cleaned to "CA"
C1_Witness ==
    /\ nstage = "normalized"
    /\ raw = <<"c", SQ, "a", " ">>
    /\ norm = <<"C", "A">>

\* C2: normalising an already normalised identifier changes nothing
C2_Idempotent ==
    nstage = "renormalized" => norm2 = norm

\* whitespace next to a quote: " ' a" is cleaned to "A", and cleaned again
C2_Witness ==
    /\ nstage = "renormalized"
    /\ raw = <<" ", SQ, " ", "a">>
    /\ norm = <<"A">>
    /\ norm2 = <<"A">>

---------------------------------------------------------------------------
(* Properties of the script run (Spec) *)

\* the merged table has been built in this run
Merged ==
    \/ pc \in {"merged", "validated", "map_done"}
    \/ pc = "done" /\ "tabs" \in rendered

\* the validation has run in this run
Validated ==
    \/ pc \in {"validated", "map_done"}
    \/ pc = "done" /\ "tabs" \in rendered

GrowthUsable == yoy_growth.present /\ Len(yoy_growth.rows) > 0

\* row i of the merged table is still in the validated table
Retained(i) == \E j \in 1..Len(map_data_clean) : map_data_clean[j].idx = i

\* C3: with a non-empty growth table, every summaries row appears in the
\* merged table with the same STATE (and the same premium columns), whether
\* or not a growth row matches it.
C3_LeftJoinKeepsRows ==
    (Merged /\ GrowthUsable) =>
        \A i \in 1..Len(forecast_summary.rows) :
            \E j \in 1..Len(map_data) :
                LET l == forecast_summary.rows[i]
                    r == map_data[j]
                IN /\ r.State = l.State
                   /\ r.MEAN_PREMIUM = l.MEAN_PREMIUM
                   /\ r.PREMIUM_STDDEV = l.PREMIUM_STDDEV
                   /\ r.MIN_PREMIUM = l.MIN_PREMIUM
                   /\ r.MAX_PREMIUM = l.MAX_PREMIUM

\* TX is in the summaries, only CA is in the growth table, TX is in the output
C3_Witness ==
    /\ pc = "merged"
    /\ GrowthUsable
    /\ \A g \in 1..Len(yoy_growth.rows) : yoy_growth.rows[g].State = <<"C","A">>
    /\ \E i \in 1..Len(forecast_summary.rows) :
          forecast_summary.rows[i].State = <<"T","X">>
    /\ \E j \in 1..Len(map_data) : map_data[j].State = <<"T","X">>

\* C4: when the growth table is None or has no rows, every row of the merged
\* table has YOY_GROWTH_PCT = 0.
C4_SentinelGrowth ==
    (Merged /\ ~GrowthUsable) =>
        \A j \in 1..Len(map_data) : map_data[j].YOY_GROWTH_PCT = Num(0)

\* a growth table that loaded with zero rows, and a two-row merged table
C4_Witness ==
    /\ pc = "merged"
    /\ yoy_growth.present
    /\ Len(yoy_growth.rows) = 0
    /\ Len(map_data) = 2
    /\ map_data[2].YOY_GROWTH_PCT = Num(0)

\* the end-to-end scenario: summaries (CA,1000,100,800,1200), (TX,900,90,700,
\* 1100), growth (CA,5), metric Mean Premium
Scenario ==
    /\ raw_summary = Table(<<SummaryRow(<<"C","A">>, Num(1000), Num(100), Num(800), Num(1200)),
                             SummaryRow(<<"T","X">>, Num(900), Num(90), Num(700), Num(1100))>>)
    /\ raw_growth = Table(<<GrowthRow(<<"C","A">>, Num(5))>>)
    /\ map_metric = "Mean Premium"

\* the scenario's merged table, with the growth figure given to TX
ScenarioMerged(txGrowth) ==
    /\ Len(map_data) = 2
    /\ map_data[1].State = <<"C","A">>
    /\ map_data[1].YOY_GROWTH_PCT = Num(5)
    /\ map_data[1].PRICE_RANGE = Num(400)
    /\ map_data[1].VOLATILITY = Num(10)
    /\ map_data[2].State = <<"T","X">>
    /\ map_data[2].YOY_GROWTH_PCT = txGrowth
    /\ map_data[2].PRICE_RANGE = Num(400)
    /\ map_data[2].VOLATILITY = Num(10)

\* both rows of the scenario are in the validated table
ScenarioSurvives ==
    /\ Len(map_data_clean) = 2
    /\ map_data_clean[1].State = <<"C","A">> /\ map_data_clean[1].idx = 1
    /\ map_data_clean[2].State = <<"T","X">> /\ map_data_clean[2].idx = 2

\* C5 as stated: in the scenario CA has growth 5, range 400, volatility 10, TX
\* has growth 0, range 400, volatility 10, and both rows survive validation.
C5_AsStated ==
    (Validated /\ Scenario) => (ScenarioMerged(Num(0)) /\ ScenarioSurvives)

\* C5 amended: the same, except that TX, which no growth row matches, has a
\* null growth figure.
C5_Scenario ==
    (Validated /\ Scenario) => (ScenarioMerged(NaN) /\ ScenarioSurvives)

\* the scenario has been merged and validated
C5_Witness ==
    /\ pc = "validated"
    /\ Scenario
    /\ Len(map_data_clean) = 2

\* C6: VOLATILITY is 0 in every merged row whose MEAN_PREMIUM is 0 or missing.
C6_VolatilityZeroGuard ==
    Merged =>
        \A j \in 1..Len(map_data) :
            (map_data[j].MEAN_PREMIUM = Num(0) \/ IsNa(map_data[j].MEAN_PREMIUM))
                => map_data[j].VOLATILITY = Num(0)

\* the map, the fallback chart or the bar chart is about to be, or has been,
\* drawn from map_data_clean
HandedToRendering ==
    \/ pc = "validated"
    \/ rendered \cap {"map", "bar_chart", "fallback_chart"} # {}

\* C7: every row handed to the map and chart rendering has a STATE of exactly
\* two upper-case ASCII letters and a non-null numeric value in the metric
\* column.
C7_RenderedRowsWellFormed ==
    HandedToRendering =>
        \A j \in 1..Len(map_data_clean) :
            LET r == map_data_clean[j] IN
            /\ Len(r.State) = 2
            /\ r.State[1] \in AZ
            /\ r.State[2] \in AZ
            /\ IsFloat(r[MetricColumn(map_metric)])

\* a table is handed to rendering from which validation dropped a row whose
\* code has another shape
C7_Witness ==
    /\ pc = "validated"
    /\ Len(map_data_clean) = 1
    /\ Len(map_data) = 2
    /\ \E i \in 1..2 : Len(map_data[i].State) = 3 /\ ~Retained(i)

\* C8: no retained row has a normalised region code that is not exactly two
\* characters or that holds a non-alphabetic character.
C8_StrictWhitelist ==
    Validated =>
        \A i \in 1..Len(map_data) :
            Retained(i) =>
                /\ Len(map_data[i].State) = 2
                /\ \A k \in 1..Len(map_data[i].State) : map_data[i].State[k] \in AZ

\* the codes C9 names, as the summary query returns them
DroppedCodes ==
    {<<"C","4">>, <<"C","a","l","i","f","o","r","n","i","a">>, <<>>, NullId}

\* C9: through loading, cleaning and validation, a summaries row with code
\* "CA" and a numeric metric is retained, and a row with code "C4",
\* "California", "" or None is dropped.
C9_Whitelist ==
    Validated =>
        \A k \in 1..Len(raw_summary.rows) :
            \A i \in 1..Len(map_data) :
                map_data[i].State = forecast_summary.rows[k].State =>
                    /\ (/\ raw_summary.rows[k].State = <<"C","A">>
                        /\ IsFloat(map_data[i][MetricColumn(map_metric)]))
                           => Retained(i)
                    /\ raw_summary.rows[k].State \in DroppedCodes => ~Retained(i)

\* the summaries hold a CA row and a row whose code is None; only CA is left
C9_Witness ==
    /\ pc = "validated"
    /\ Len(raw_summary.rows) = 2
    /\ raw_summary.rows[1].State = <<"C","A">>
    /\ raw_summary.rows[2].State = NullId
    /\ Len(map_data_clean) = 1
    /\ map_data_clean[1].State = <<"C","A">>

\* the summary fetch raised or returned no rows
LoadAborted ==
    /\ pc # "start"
    /\ ~forecast_summary.present \/ Len(forecast_summary.rows) = 0

\* nothing of the dashboard is drawn and neither the merge nor the validation
\* has run
NothingRendered ==
    /\ rendered \cap {"data_status", "kpi", "controls", "map", "map_stats",
                      "bar_chart", "fallback_chart", "tabs", "exception"} = {}
    /\ pc \in {"loaded", "done"}
    /\ map_data = <<>>
    /\ map_data_clean = <<>>

HowMany(seq, x) == Cardinality({i \in 1..Len(seq) : seq[i] = x})

\* C10 as stated: on a failed or empty summary fetch nothing is rendered and
\* the run shows exactly one error message.
C10_AsStated ==
    LoadAborted =>
        /\ NothingRendered
        /\ pc = "done" => Len(errors) = 1

\* C10 amended: nothing is rendered, the merge and validation do not run, and
\* the caller's top-level error is shown exactly once; it is the run's only
\* error message exactly when the fetch returned no rows and the connection
\* test passed, since a raising fetch adds the loader's own error and a failed
\* connection test adds one more.
C10_LoadAborts ==
    LoadAborted =>
        /\ NothingRendered
        /\ pc = "done" =>
              /\ HowMany(errors, "unable_to_load") = 1
              /\ errors = (IF forecast_summary.present THEN <<>>
                           ELSE <<"critical_error_loading">>)
                          \o <<"unable_to_load">>
                          \o (IF "connection_status" \in rendered THEN <<>>
                              ELSE <<"connection_error">>)
              /\ Len(errors) = 1 <=>
                    (forecast_summary.present /\ "connection_status" \in rendered)

\* the summary fetch raised: the loader's error and the caller's error
C10_Witness ==
    /\ pc = "done"
    /\ ~forecast_summary.present
    /\ errors = <<"critical_error_loading", "unable_to_load">>
    /\ rendered = {"troubleshooting", "footer", "connection_status"}

\* every summaries row has the region code USA
AllUSA ==
    /\ forecast_summary.present
    /\ Len(forecast_summary.rows) > 0
    /\ \A k \in 1..Len(forecast_summary.rows) :
          forecast_summary.rows[k].State = <<"U","S","A">>

\* C14: when every summaries row has the code USA, the validation leaves no
\* row and reports it ("no valid data" or "no valid state codes"), the map is
\* not drawn, the "unable to load" branch is not taken, and the run goes on
\* to the rest of the dashboard.
C14_AllUsaEmptyResult ==
    AllUSA =>
        /\ "unable_to_load" \notin {errors[i] : i \in 1..Len(errors)}
        /\ "troubleshooting" \notin rendered
        /\ Validated =>
              /\ map_data_clean = <<>>
              /\ errors # <<>>
              /\ errors[Len(errors)] \in {"no_valid_data", "no_valid_codes"}
              /\ rendered \cap {"map", "map_stats", "bar_chart", "fallback_chart"} = {}
              /\ pc \in {"map_done", "done"}
        /\ pc = "done" => {"kpi", "controls", "tabs", "footer"} \subseteq rendered

\* two rows that both clean to USA, metric Mean Premium: both reach the
\* validation, the length filter drops them, the tabs are drawn
C14_Witness ==
    /\ pc = "done"
    /\ AllUSA
    /\ Len(raw_summary.rows) = 2
    /\ Len(map_data) = 2
    /\ map_data_clean = <<>>
    /\ errors[Len(errors)] = "no_valid_codes"
    /\ "tabs" \in rendered

\* no two growth rows have the same STATE
GrowthUnique ==
    \A a \in 1..Len(yoy_growth.rows), b \in 1..Len(yoy_growth.rows) :
        yoy_growth.rows[a].State = yoy_growth.rows[b].State => a = b

\* C15: when the growth table has at most one row per STATE, the merged table
\* has exactly one row per summaries row, in the summaries' order.
C15_OneRowPerSummary ==
    (Merged /\ GrowthUnique) =>
        /\ Len(map_data) = Len(forecast_summary.rows)
        /\ \A i \in 1..Len(map_data) :
              LET l == forecast_summary.rows[i]
                  r == map_data[i]
              IN /\ r.State = l.State
                 /\ r.MEAN_PREMIUM = l.MEAN_PREMIUM
                 /\ r.PREMIUM_STDDEV = l.PREMIUM_STDDEV
                 /\ r.MIN_PREMIUM = l.MIN_PREMIUM
                 /\ r.MAX_PREMIUM = l.MAX_PREMIUM

\* two growth rows with different codes, one of which matches a summaries row
C15_Witness ==
    /\ pc = "merged"
    /\ Len(yoy_growth.rows) = 2
    /\ GrowthUnique
    /\ Len(forecast_summary.rows) = 2
    /\ Len(map_data) = 2
    /\ \E i \in 1..2 : ~IsNa(map_data[i].YOY_GROWTH_PCT)

\* no growth row has the STATE of merged row j
Unmatched(j) ==
    \A g \in 1..Len(yoy_growth.rows) :
        yoy_growth.rows[g].State # map_data[j].State

\* C16: with a non-empty growth table, a summaries row whose STATE matches no
\* growth row has a null YOY_GROWTH_PCT in the merged table.
C16_UnmatchedGrowthNull ==
    (Merged /\ GrowthUsable) =>
        \A j \in 1..Len(map_data) :
            Unmatched(j) => IsNa(map_data[j].YOY_GROWTH_PCT)

\* CA is matched and has its figure, the other row is not and has NaN
C16_Witness ==
    /\ pc = "merged"
    /\ GrowthUsable
    /\ Len(map_data) = 2
    /\ map_data[1].State = <<"C","A">>
    /\ map_data[1].YOY_GROWTH_PCT = Num(5)
    /\ Unmatched(2)
    /\ IsNa(map_data[2].YOY_GROWTH_PCT)

\* C17: the validated table is a sub-sequence of the merged table: each of
\* its rows is a row of the merged table, taken at most once and in the same
\* order, so it has no more rows than the merged table.
C17_ValidatedIsSubsequence ==
    Validated =>
        /\ \A j \in 1..Len(map_data_clean) :
              /\ map_data_clean[j].idx \in 1..Len(map_data)
              /\ map_data_clean[j] = map_data[map_data_clean[j].idx]
        /\ \A j \in 1..Len(map_data_clean), k \in 1..Len(map_data_clean) :
              j < k => map_data_clean[j].idx < map_data_clean[k].idx
        /\ Len(map_data_clean) <= Len(map_data)

\* C19: preparing the map data leaves the summaries and the growth table as
\* they were (no row, value or column changed or added), and the validation
\* leaves the merged table as it was.
C19_InputsNotMutated ==
    [][/\ (pc = "controls" /\ pc' = "merged") =>
              /\ forecast_summary' = forecast_summary
              /\ yoy_growth' = yoy_growth
       /\ (pc = "merged" /\ pc' \in {"validated", "map_done"}) =>
              /\ map_data' = map_data
              /\ forecast_summary' = forecast_summary
              /\ yoy_growth' = yoy_growth]_vars

\* the copy branch was taken (growth is None), the merged table got its three
\* columns, and the validation rewrote C4A to CA in its own table only
C19_Witness ==
    /\ pc = "validated"
    /\ ~yoy_growth.present
    /\ forecast_summary.rows = CleanStateColumn(raw_summary.rows)
    /\ Len(map_data) = 1
    /\ map_data[1].State = <<"C","4","A">>
    /\ map_data[1].YOY_GROWTH_PCT = Num(0)
    /\ map_data_clean[1].State = <<"C","A">>

\* an identifier in normalised form: no quote, no whitespace at either end,
\* no lower-case letter
IsNormalized(id) ==
    /\ \A k \in 1..Len(id) : ~IsQuote(id[k])
    /\ \A k \in 1..Len(id) : \A i \in 1..Len(LowerLetters) : id[k] # LowerLetters[i]
    /\ id # <<>> => id[1] \notin Whitespace /\ id[Len(id)] \notin Whitespace

\* the identifier column of each table the loader returned is normalised
TablesNormalized ==
    /\ \A i \in 1..Len(forecast_summary.rows) :
          IsNormalized(forecast_summary.rows[i].State)
    /\ \A i \in 1..Len(yoy_growth.rows) : IsNormalized(yoy_growth.rows[i].State)
    /\ \A i \in 1..Len(predictions.rows) : IsNormalized(predictions.rows[i].SERIES)

\* the order in which a script run moves through its stages
StageOrder ==
    {<<"start", "loaded">>, <<"loaded", "controls">>, <<"loaded", "crashed">>,
     <<"loaded", "done">>, <<"controls", "merged">>, <<"merged", "validated">>,
     <<"merged", "map_done">>, <<"validated", "map_done">>, <<"map_done", "done">>}

\* C22: in a script run the load with its normalisation, the merge and the
\* validation each run once and in that order, and the join is given tables
\* whose identifier columns have all been normalised.
C22_StagesInOrder ==
    [][/\ pc' # pc => <<pc, pc'>> \in StageOrder
       /\ map_data' # map_data => (pc = "controls" /\ TablesNormalized)
       /\ map_data_clean' # map_data_clean => (pc = "merged" /\ pc' = "validated")
       /\ "loaded" \in {pc, pc'} => (map_data = <<>> /\ map_data_clean = <<>>)]_vars

\* the summaries hold " Ca ", the growth table 'ca': cleaned before the join,
\* they match, and the row goes on through the validation
C22_Witness ==
    /\ pc = "validated"
    /\ Len(raw_summary.rows) = 1
    /\ raw_summary.rows[1].State = <<" ", "C", "a", " ">>
    /\ Len(raw_growth.rows) = 1
    /\ raw_growth.rows[1].State = <<SQ, "c", "a", SQ>>
    /\ map_data[1].YOY_GROWTH_PCT = Num(7)
    /\ Len(map_data_clean) = 1

\* C24: for every non-empty validated table the scatter map's colour
\* normalisation gives each row a value in [0,1], and the scatter map is
\* drawn, never the fallback chart of the exception handler.
C24_ScatterMapAlwaysDrawn ==
    /\ "fallback_chart" \notin rendered
    /\ pc = "validated" =>
          \A i \in 1..Len(map_data_clean) :
              LET x == Normalized(map_data_clean, MetricColumn(map_metric), i) IN
              /\ IsNum(x)
              /\ 0 <= x.n
              /\ x.n <= x.d

\* the number of growth rows that summaries row i matches in the join
MatchCount(i) ==
    IF GrowthUsable
    THEN Cardinality({g \in 1..Len(yoy_growth.rows) :
                         yoy_growth.rows[g].State = forecast_summary.rows[i].State})
    ELSE 0

\* the number of merged rows that carry summaries row i
Copies(i) ==
    Cardinality({j \in 1..Len(map_data) :
        LET l == forecast_summary.rows[i]
            r == map_data[j]
        IN /\ r.State = l.State
           /\ r.MEAN_PREMIUM = l.MEAN_PREMIUM
           /\ r.PREMIUM_STDDEV = l.PREMIUM_STDDEV
           /\ r.MIN_PREMIUM = l.MIN_PREMIUM
           /\ r.MAX_PREMIUM = l.MAX_PREMIUM})

\* C25: the merged table has at least as many rows as the summaries, and
\* exactly as many precisely when no summaries row matches more than one
\* growth row; a summaries row that matches k > 1 growth rows is there k
\* times, any other row once.
C25_DuplicatesMultiply ==
    Merged =>
        /\ Len(map_data) >= Len(forecast_summary.rows)
        /\ Len(map_data) = Len(forecast_summary.rows)
              <=> \A i \in 1..Len(forecast_summary.rows) : MatchCount(i) <= 1
        /\ \A i \in 1..Len(forecast_summary.rows) :
              Copies(i) = (IF MatchCount(i) > 1 THEN MatchCount(i) ELSE 1)

\* the growth table holds 'ca' and CA, which both clean to CA: the CA
\* summaries row is in the merged table twice, once with each figure
C25_Witness ==
    /\ pc = "merged"
    /\ Len(forecast_summary.rows) = 1
    /\ forecast_summary.rows[1].State = <<"C","A">>
    /\ Len(yoy_growth.rows) = 2
    /\ Len(map_data) = 2
    /\ map_data[1].YOY_GROWTH_PCT = Num(7)
    /\ map_data[2].YOY_GROWTH_PCT = Num(5)

\* the rows of the merged table that come from one summaries row
FromSummaryRow(r) ==
    {j \in 1..Len(map_data) :
        /\ map_data[j].State = r.State
        /\ map_data[j].MEAN_PREMIUM = r.MEAN_PREMIUM
        /\ map_data[j].PREMIUM_STDDEV = r.PREMIUM_STDDEV
        /\ map_data[j].MIN_PREMIUM = r.MIN_PREMIUM
        /\ map_data[j].MAX_PREMIUM = r.MAX_PREMIUM}

\* C26: the volatility the deep dive shows for a state, and the per-state
\* values behind the "Avg Volatility" card, equal the VOLATILITY the merge
\* computed for the same summaries row, a zero or missing MEAN_PREMIUM
\* included.
C26_VolatilityAgrees ==
    (pc = "done" /\ deep_dive.shown) =>
        /\ \A j \in FromSummaryRow(deep_dive.state_data) :
               deep_dive.volatility = map_data[j].VOLATILITY
        /\ \A i \in 1..Len(forecast_summary.rows) :
               \A j \in FromSummaryRow(forecast_summary.rows[i]) :
                  CardVolatilities(forecast_summary.rows)[i]
                      = map_data[j].VOLATILITY

\* the validation with its steps in the specified order: drop the nulls,
\* check the region code, then coerce the metric and drop what failed
SpecifiedOrder(rows, col) ==
    DropNaMetric(
        CoerceMetric(
            TwoCharCodes(CleanupStateColumn(DropNaMetricState(rows, col))),
            col),
        col)

C20_DerivedMetrics ==
    Merged =>
        \A j \in 1..Len(map_data) :
            LET r == map_data[j]
                mean == r.MEAN_PREMIUM
                std == r.PREMIUM_STDDEV
                lo == r.MIN_PREMIUM
                hi == r.MAX_PREMIUM
            IN (IsNum(mean) /\ IsNum(std) /\ IsNum(lo) /\ IsNum(hi) /\ mean.n # 0) =>
                  /\ IsNum(r.PRICE_RANGE)
                  /\ r.PRICE_RANGE.n * hi.d * lo.d
                         = (hi.n * lo.d - lo.n * hi.d) * r.PRICE_RANGE.d
                  /\ IsNum(r.VOLATILITY)
                  /\ r.VOLATILITY.n * mean.n * std.d
                         = 100 * std.n * mean.d * r.VOLATILITY.d

\* the row (1200, 60, 1000, 1500): range 500, volatility 5
C20_Witness ==
    /\ pc = "merged"
    /\ \E j \in 1..Len(map_data) :
          /\ map_data[j].MEAN_PREMIUM = Num(1200)
          /\ map_data[j].PRICE_RANGE = Num(500)
          /\ map_data[j].VOLATILITY = Num(5)

---------------------------------------------------------------------------
(* Properties of the repeated loads (SpecCache) *)

\* the tuple a load returned has a None in it
HasNone(ret) ==
    ~ret.summary.present \/ ~ret.growth.present \/ ~ret.predictions.present

\* C11: in a load whose summary fetch succeeded, a failing growth or
\* predictions fetch is contained: the failed table is returned as None, with
\* one warning and no error, its query was issued once, the summary is still
\* returned, and whether the other optional table is returned depends only on
\* that table's own fetch.
C11_OptionalFailureContained ==
    \A j \in 1..Len(loads) :
        LET L == loads[j] IN
        (~L.hit /\ L.fetched.s # "raises") =>
            /\ L.ret.summary.present
            /\ L.ret.summary.source = L.table
            /\ L.ret.growth.present <=> L.fetched.g # "raises"
            /\ L.ret.predictions.present <=> L.fetched.p # "raises"
            /\ HowMany(L.ret.queries, L.table) = 1
            /\ HowMany(L.ret.queries, GrowthTable) = 1
            /\ HowMany(L.ret.queries, PredictionsTable) = 1
            /\ L.ret.errors = <<>>
            /\ HowMany(L.ret.warnings, "growth_unavailable")
                   = (IF L.fetched.g = "raises" THEN 1 ELSE 0)
            /\ HowMany(L.ret.warnings, "predictions_unavailable")
                   = (IF L.fetched.p = "raises" THEN 1 ELSE 0)
            /\ Len(L.ret.warnings) = HowMany(L.ret.warnings, "growth_unavailable")
                   + HowMany(L.ret.warnings, "predictions_unavailable")

\* a load in which the growth fetch raised and the predictions fetch
\* returned: growth is None, the summary and the predictions are there
C11_Witness ==
    \E j \in 1..Len(loads) :
        /\ ~loads[j].hit
        /\ loads[j].fetched = [s |-> "rows", g |-> "raises", p |-> "rows"]
        /\ ~loads[j].ret.growth.present
        /\ loads[j].ret.predictions.present
        /\ loads[j].ret.summary.present
        /\ loads[j].ret.warnings = <<"growth_unavailable">>

\* C12: a load that follows a load of the same table name in which a fetch
\* failed issues queries again; it is not served the earlier tuple with its
\* None entries.
C12_FailedFetchNotCached ==
    \A i \in 1..Len(loads), j \in 1..Len(loads) :
        (/\ i < j
         /\ loads[i].table = loads[j].table
         /\ ~loads[i].hit
         /\ HasNone(loads[i].ret))
            => loads[j].ret.queries # <<>>

\* C13: the summary a load uses was fetched from the table named in the text
\* input at that load.
C13_SummaryOfConfiguredTable ==
    \A j \in 1..Len(loads) :
        loads[j].ret.summary.present =>
            loads[j].ret.summary.source = loads[j].table

---------------------------------------------------------------------------
(* Properties of the column bookkeeping (SpecCols) *)

\* an expected column is absent: one of the five of the summaries, or STATE
\* or YOY_GROWTH_PCT of a growth table that has rows
ColumnMissing ==
    \/ summary_cols # SummaryColumns
    \/ FrameUsable(growth_frame) /\ ~(GrowthColumns \subseteq growth_frame.cols)

\* C18: when an expected column is absent, no stage skips the column or goes
\* on to return a merged table; the run ends in the exception.
C18_MissingColumnIsFatal ==
    (cstage # "idle" /\ ColumnMissing) =>
        /\ "summaries" \notin skipped
        /\ FrameUsable(growth_frame) => "growth" \notin skipped
        /\ cstage # "merged"
        /\ merged_cols = {}

---------------------------------------------------------------------------
(* Properties of the cleaning chain on one cell (SpecCell) *)

\* C21: for any cell, None and numbers included, no step of the cleaning
\* chain raises, and the chain ends in a string: the cleaned form of the
\* cell's string representation.
C21_NormalizeNeverRaises ==
    /\ ~id_raised
    /\ id_pos = Len(ChainSteps) =>
          /\ id_cur.t = "str"
          /\ id_cur.s = CleanState(PyStr(id_cell))

\* the integer 42 has gone through the whole chain and is the text "42"
C21_Witness ==
    /\ id_pos = Len(ChainSteps)
    /\ id_cell = IntCell(42)
    /\ ~id_raised
    /\ id_cur = StrCell(<<"4", "2">>)

\* C23: the selectbox offers four metrics, each a key of metric_config, and
\* whether the growth table is there, None or empty, each maps to a column
\* of the merged table.
C23_MetricColumnsExist ==
    /\ Cardinality(MetricOptions) = 4
    /\ MetricOptions \subseteq MetricConfigKeys
    /\ cstage = "merged" =>
          /\ \A m \in MetricOptions : MetricColumn(m) \in merged_cols
          /\ {MetricColumn(m) : m \in MetricOptions}
                 = {"MEAN_PREMIUM", "YOY_GROWTH_PCT", "VOLATILITY", "PRICE_RANGE"}

\* the growth table is None and the merged table still has a growth column
C23_Witness ==
    /\ cstage = "merged"
    /\ growth_frame = NoneFrame
    /\ summary_cols = SummaryColumns
    /\ "YOY_GROWTH_PCT" \in merged_cols


---------------------------------------------------------------------------
(* Properties of the map calls (SpecGeo) *)

\* 0 <= x <= 1
InUnitInterval(x) == IsNum(x) /\ FLeq(Num(0), x) /\ FLeq(x, Num(1))

\* C28: in a call on a non-empty validated table every normalised value that
\* is computed lies in [0,1]; a state carrying the minimum is at 0 and, when
\* the values are not all equal, a state carrying the maximum is at 1; when
\* they are all equal the divisor is 1 and every state is at 0.
C28_NormalizedInUnitInterval ==
    geo_call.made =>
        /\ geo_call.value_range # Num(0)
        /\ \A st \in DOMAIN geo_call.normalized :
              /\ InUnitInterval(geo_call.normalized[st])
              /\ geo_call.state_values[st] = geo_call.min_val
                     => geo_call.normalized[st] = Num(0)
              /\ (geo_call.state_values[st] = geo_call.max_val
                     /\ geo_call.max_val # geo_call.min_val)
                     => geo_call.normalized[st] = Num(1)
        /\ geo_call.max_val = geo_call.min_val =>
              /\ geo_call.value_range = Num(1)
              /\ \A st \in DOMAIN geo_call.normalized :
                    geo_call.normalized[st] = Num(0)

\* what the latest call alone gives feature k
LatestOnly(k) ==
    LET code == FeatureCodes[k] IN
    IF code \in DOMAIN geo_call.state_values
    THEN [value |-> Round2(geo_call.state_values[code]),
          fill_color |-> GetColorForScale(
              NormalizedValue(geo_call.state_values[code], geo_call.min_val,
                              geo_call.value_range),
              ColorScale(geo_call.metric))]
    ELSE [value |-> Num(0), fill_color |-> Grey]

\* C29: after any sequence of calls each feature carries what the latest call
\* gives it: the latest table's value and colour for a state in that table,
\* value 0 and the grey fill for a state that is not in it.
C29_FeaturesReflectLatestCall ==
    geo_call.made => \A k \in DOMAIN geo : geo[k] = LatestOnly(k)

====
